---------------------------- MODULE Spec2Model ----------------------------
(***************************************************************************)
(* LWMessageQueue: a fan-in of CHANNELS single-producer / single-consumer  *)
(* ring buffers (ThreadChannel), each with a read index, a write index and *)
(* an atomic element count.  One input thread per channel pushes, one      *)
(* output thread polls every channel and pops.                             *)
(*                                                                         *)
(* Every memory access of pushBack / popFront that another thread can      *)
(* observe is a step of its own; the copy of a MessageContainer into or    *)
(* out of a slot is not atomic and is a begin step and an end step.        *)
(* std::atomic operations use the default sequentially consistent order,   *)
(* so the interleaving of steps is the memory model.                       *)
(***************************************************************************)
EXTENDS Integers, Sequences, FiniteSets, TLC

\* ----------------------------------------------------------------- bounds

\* SIZE is 2^SizeLog2 (the static_assert accepts only powers of two).
SizeLog2 == 1

\* The producers' loop count numMessages is drawn from 1..MaxNumMessages;
\* each iteration pushes one Message1 and one Message2.
MaxNumMessages == 2

\* The single calling thread has at most MaxPushes pushes accepted.
MaxPushes == 3

\* ------------------------------------------------------ template parameters

CHANNELS == 2

RECURSIVE Pow2(_)
Pow2(k) == IF k = 0 THEN 1 ELSE 2 * Pow2(k - 1)

SIZE == Pow2(SizeLog2)

sizeMinusOne == SIZE - 1

Channels == 0 .. (CHANNELS - 1)
Slots == 0 .. (SIZE - 1)

\* ------------------------------------------------------------- arithmetic

\* Bitwise and of two naturals.
RECURSIVE BitAnd(_, _)
BitAnd(a, b) ==
    IF a = 0 \/ b = 0 THEN 0
    ELSE (a % 2) * (b % 2) + 2 * BitAnd(a \div 2, b \div 2)

\* The index advance with the wrong mask (SIZE instead of SIZE - 1).
AdvancePointWrongMask(p) == BitAnd(p + 1, SIZE)

\* The index advance by two.
AdvancePointByTwo(p) == BitAnd(p + 2, sizeMinusOne)

\* The index advance without the mask.
AdvancePointNoMask(p) == p + 1

\* writePoint = (writePoint + 1) & sizeMinusOne, and the same for readPoint.
AdvancePoint(p) == BitAnd(p + 1, sizeMinusOne)

\* static_cast<char>(inChannelIndex) with a signed 8 bit char.
ToChar(x) == LET m == x % 256 IN IF m > 127 THEN m - 256 ELSE m

\* ------------------------------------------------------------- containers

\* A slot of elements[] before anything was copied into it: the array has no
\* initialiser, its content is indeterminate.
Uninit == [type |-> "Uninit"]

\* The payloads the two programs push.  k is the number of pushes the thread
\* has completed: even k pushes a Message1, odd k a Message2.
TestMessage(c, k) ==
    IF k % 2 = 0 THEN [value |-> c]
    ELSE [charValue |-> ToChar(c), uintValue |-> c]

ExampleMessage(c, k) ==
    IF k % 2 = 0 THEN [value |-> 17, anotherValue |-> 4711]
    ELSE [value |-> c, anotherValue |-> c, moreValues |-> <<c % 256, c % 256>>]

MessageTypeOf(k) == IF k % 2 = 0 THEN "Message1" ELSE "Message2"

\* pushMessage builds the container: the type tag and the copied payload.
\* seq is a history tag (which push of which channel built the container);
\* no code reads it.
MakeContainer(prog, c, k) ==
    [type |-> MessageTypeOf(k),
     message |-> IF prog = "test" THEN TestMessage(c, k) ELSE ExampleMessage(c, k),
     seq |-> <<c, k>>]

\* What the read of an indeterminate or concurrently written slot can yield.
AnyContainer ==
    {Uninit} \cup
    {MakeContainer(p, c, k) : p \in {"test", "example"}, c \in Channels,
                              k \in 0 .. (2 * MaxNumMessages - 1)}

\* verifyMessage of the test and of the example: TRUE when no check fails.
TestVerifyMessage(m, ch) ==
    CASE m.type = "Message1" -> m.message.value = ch
      [] m.type = "Message2" ->
            m.message.uintValue = ch /\ m.message.charValue = ToChar(ch)
      [] OTHER -> FALSE

ExampleVerifyMessage(ch, m) ==
    CASE m.type = "Message1" ->
            m.message.value = 17 /\ m.message.anotherValue = 4711
      [] m.type = "Message2" ->
            /\ m.message.value = ch
            /\ m.message.anotherValue = ch
            /\ m.message.moreValues = <<ch, ch>>
      [] OTHER -> FALSE

\* -------------------------------------------------------- message storage

\* The payload types of the test's MessageUnion, and the tags of its
\* MessageType enum.
PayloadTypes == {"Message1", "Message2", "Message3"}
MessageTypes == {"Message1", "Message2", "Message3"}

\* sizeof(MessageUnion): its largest member, Message3.
unionSize == 24

\* The fields of a payload type: offset and size in bytes (LP64), and what
\* kind of value the bytes are ("uint": uint32_t, little endian; "char": a
\* signed char; "bytes": the 8 bytes of a pointer or of a double).
Layout(T) ==
    CASE T = "Message1" ->
            <<[name |-> "value", offset |-> 0, size |-> 4, kind |-> "uint"]>>
      [] T = "Message2" ->
            <<[name |-> "charValue", offset |-> 0, size |-> 1, kind |-> "char"],
              [name |-> "uintValue", offset |-> 4, size |-> 4, kind |-> "uint"]>>
      [] T = "Message3" ->
            <<[name |-> "stringRef", offset |-> 0, size |-> 8, kind |-> "bytes"],
              [name |-> "uintValue", offset |-> 8, size |-> 4, kind |-> "uint"],
              [name |-> "doubleValue", offset |-> 16, size |-> 8, kind |-> "bytes"]>>

\* A byte nothing was stored in (a local MessageContainer is not initialised,
\* and the padding between fields is never written): no value of 0 .. 255.
Indeterminate == 256

\* Byte i of the little endian representation of the natural n.
RECURSIVE ByteOf(_, _)
ByteOf(n, i) == IF i = 0 THEN n % 256 ELSE ByteOf(n \div 256, i - 1)

\* The n bytes bs[1..n], little endian, as a natural.
RECURSIVE FromBytes(_, _)
FromBytes(bs, n) ==
    IF n = 0 THEN 0 ELSE bs[1] + 256 * FromBytes(Tail(bs), n - 1)

\* The bytes of a field's value, first byte first.
FieldBytes(f, x) ==
    CASE f.kind = "uint" -> [i \in 1 .. f.size |-> ByteOf(x, i - 1)]
      [] f.kind = "char" -> <<x % 256>>
      [] f.kind = "bytes" -> x

\* The value the bytes bs of a field are, read as the field's type (a
\* number with a byte nothing was stored in is indeterminate).
FieldValue(f, bs) ==
    IF f.kind = "bytes" THEN bs
    ELSE IF \E i \in 1 .. f.size : bs[i] = Indeterminate THEN Indeterminate
    ELSE IF f.kind = "uint" THEN FromBytes(bs, f.size)
    ELSE ToChar(bs[1])

\* The field of T that holds byte o of the union, or 0 when o is padding or
\* lies behind T.
FieldAt(T, o) ==
    LET hit == {j \in 1 .. Len(Layout(T)) :
                    /\ Layout(T)[j].offset <= o
                    /\ o < Layout(T)[j].offset + Layout(T)[j].size}
    IN  IF hit = {} THEN 0 ELSE CHOOSE j \in hit : TRUE

\* A store that copies only the first four bytes of the payload.
StoreMessageFirstWord(storage, T, v) ==
    [o \in 0 .. (unionSize - 1) |->
        LET j == FieldAt(T, o)
        IN  IF j = 0 \/ o >= 4 THEN storage[o]
            ELSE FieldBytes(Layout(T)[j], v[Layout(T)[j].name])
                     [o - Layout(T)[j].offset + 1]]

\* *reinterpret_cast<T*>(&messageContainer.message) = inMessage: the bytes of
\* every field of v go to the field's offset, every other byte of the union
\* keeps what it held.
StoreMessage(storage, T, v) ==
    [o \in 0 .. (unionSize - 1) |->
        LET j == FieldAt(T, o)
        IN  IF j = 0 THEN storage[o]
            ELSE FieldBytes(Layout(T)[j], v[Layout(T)[j].name])
                     [o - Layout(T)[j].offset + 1]]

\* MessageContainer::getMessage<T>(): the union's bytes read as a T.
getMessage(T, m) ==
    [n \in {Layout(T)[j].name : j \in 1 .. Len(Layout(T))} |->
        LET f == CHOOSE g \in {Layout(T)[j] : j \in 1 .. Len(Layout(T))} :
                     g.name = n
        IN  FieldValue(f, [i \in 1 .. f.size |-> m.message[f.offset + i - 1]])]

\* MessageContainer::getType()
getType(m) == m.type

\* Internal::typeIdOf<T>: every instantiation has a static of its own, and
\* the id is the address of that static.
typeIdOfShared(T) == "&typeIdOf::typeId"
typeIdOf(T) == "&typeIdOf<" \o T \o ">::typeId"

\* MessageContainer::isOfType<U>() of MessageQueue.h
isOfType(U, m) == typeIdOf(U) = m.type

\* pushMessage's local MessageContainer after its two stores: the tag (the
\* caller's t in LWMessageQueue.h, typeIdOf(inMessage) in MessageQueue.h) and
\* the payload.  seq is the history tag of MakeContainer.
FilledContainer(h, T, v, t, seq) ==
    [type |-> IF h = "MessageQueue.h" THEN typeIdOf(T) ELSE t,
     message |-> StoreMessage([o \in 0 .. (unionSize - 1) |-> Indeterminate],
                              T, v),
     seq |-> seq]

\* ------------------------------------------------------------------ state

VARIABLES
    \* ThreadChannel threadChannels[CHANNELS]
    elements,          \* [channel -> [slot -> container]]
    readPoint,         \* [channel -> index]
    writePoint,        \* [channel -> index]
    numElements,       \* [channel -> count], the atomic
    \* the program that runs
    program,           \* "test" (LWMessageQueueTest.cpp) or "example" (example.cpp)
    numMessages,       \* loop count of every input thread
    aborted,           \* "no", or the assertion that ended the process
    \* input thread of channel c
    ipc,               \* [channel -> position]
    sent,              \* [channel -> pushMessage calls returned]
    inElement,         \* [channel -> container handed to pushBack]
    \* the output thread
    opc,               \* position
    channelIndex,      \* channel being polled
    pendingMessages,   \* count read at the start of the pass on this channel
    messageIndex,      \* pops done in this pass
    receivedMessages,
    returnElement,     \* popFront's local copy
    \* history
    pushed,            \* [channel -> containers handed to pushMessage, in order]
    popped,            \* [channel -> containers popMessage returned, in order]
    slotState,         \* [channel -> [slot -> "unwritten" | "writing" | "written"
                       \*                    | "published" | "consumed"]]
    wSlot,             \* [channel -> slot the running pushBack wrote]
    raced,             \* the running slot read overlapped a write of the slot
    \* a single thread that calls the interface (pushMessageTest,
    \* popMessageTest, isFullTest and calls those tests do not make)
    header,            \* "LWMessageQueue.h" or "MessageQueue.h"
    channelInput,      \* [k -> the input handle obtained for channel k]
    channelOutput,     \* [k -> the output handle obtained for channel k]
    lastCall,          \* the call that returned last, and what it returned
    \* history of the single thread's calls
    pushedMessages,    \* [channel -> <<[T, v, t]>> given to pushMessage]
    burst,             \* [channel -> pushes and pops since it was last empty]
    \* history of the steps of pushBack and popFront
    completed,         \* [channel -> [W, I, R, D]: slot writes, increments,
                       \*  slot reads and decrements completed]
    \* the static_assert of the ThreadChannel constructor
    value,             \* the template argument SIZE, 32 bits
    instantiated,      \* "no" (not compiled yet), "yes" or "ill-formed"
    \* one ThreadChannel and one WaitFreeFifo of the same size, given the
    \* same calls
    S,                 \* the size of both
    build,             \* "checked", or "NDEBUG": assert expands to nothing
    channel,           \* the ThreadChannel: [elements, readPoint, writePoint,
                       \*  numElements]
    fifo,              \* the WaitFreeFifo, the same fields
    returned,          \* the call both returned from last, and their results
    calls              \* [pushBack, popFront, misuse]: calls made to both,
                       \*  and those of them that broke the contract

vars == <<elements, readPoint, writePoint, numElements, program, numMessages,
          aborted, ipc, sent, inElement, opc, channelIndex, pendingMessages,
          messageIndex, receivedMessages, returnElement, pushed, popped,
          slotState, wSlot, raced, header, channelInput, channelOutput,
          lastCall, pushedMessages, burst, completed, value, instantiated, S,
          build, channel, fifo, returned, calls>>

chanVars == <<elements, readPoint, writePoint, numElements>>
inputVars == <<ipc, sent, inElement>>
outputVars == <<opc, channelIndex, pendingMessages, messageIndex,
                receivedMessages, returnElement>>
configVars == <<program, numMessages>>
callerVars == <<header, channelInput, channelOutput, lastCall, pushedMessages,
                burst>>
historyVars == <<pushed, popped, slotState, wSlot, raced>>
unitVars == <<value, instantiated, S, build, channel, fifo, returned, calls>>

\* Messages every input thread pushes, and what the output thread waits for.
numMessagesPerThread == 2 * numMessages
totalMessages == numMessagesPerThread * CHANNELS

\* --------------------------------------------------------------- handles

\* assert(inChannel < CHANNELS) of both getters, with <= for <.
ChannelInRangeInclusive(inChannel) == inChannel <= CHANNELS

\* assert(inChannel < CHANNELS) of getThreadChannelInput / Output
ChannelInRange(inChannel) == inChannel < CHANNELS

\* An input handle that always refers to threadChannels[0].
getThreadChannelInputFirst(inChannel) == 0

\* getThreadChannelInput / getThreadChannelOutput: a handle is a reference to
\* threadChannels[inChannel], here the index of that channel.
getThreadChannelInput(inChannel) == inChannel

\* An output handle that always refers to threadChannels[0].
getThreadChannelOutputFirst(inChannel) == 0

getThreadChannelOutput(inChannel) == inChannel

\* ThreadChannel::size(): one load of the atomic.
size(c) == numElements[c]

\* isFull with the wrong comparison.
isFullGreater(c) == size(c) > SIZE

\* isFull that answers one element early.
isFullOneBelow(c) == size(c) >= SIZE - 1

\* ThreadChannelInput::isFull()
isFull(c) == size(c) = SIZE

\* ThreadChannelOutput::getNumMessages()
getNumMessages(c) == size(c)

\* A fetch_add that adds two, a fetch_add and a fetch_sub that store nothing.
FetchAddTwo(n) == n + 2
FetchAddNone(n) == n
FetchSubNone(n) == n

\* A fetch_add that subtracts.
FetchAddSubtracts(n) == n - 1

\* A fetch_sub that subtracts two.
FetchSubTwo(n) == n - 2

\* A fetch_sub that adds.
FetchSubAdds(n) == n + 1

\* numElements.fetch_add(1) / fetch_sub(1): the stored value.
FetchAdd(n) == n + 1
FetchSub(n) == n - 1

\* A handle variable of a caller: the channel its reference member refers
\* to.  inChannel is a history tag (the index the handle was asked for); no
\* code reads it.
InputHandle(inChannel) ==
    [threadChannel |-> getThreadChannelInput(inChannel), inChannel |-> inChannel]
OutputHandle(inChannel) ==
    [threadChannel |-> getThreadChannelOutput(inChannel), inChannel |-> inChannel]

\* ------------------------------------------------- 32-bit unsigned values

\* A uint32_t is held as its two 16-bit halves <<high, low>>; arithmetic is
\* modulo 2^32.
Half == Pow2(16)

Zero32 == <<0, 0>>
Uint32(n) == <<(n \div Half) % Half, n % Half>>

Inc32(x) ==
    IF x[2] + 1 < Half THEN <<x[1], x[2] + 1>> ELSE <<(x[1] + 1) % Half, 0>>

\* A decrement that stops at 0.
Dec32Saturating(x) ==
    IF x = <<0, 0>> THEN x
    ELSE IF x[2] > 0 THEN <<x[1], x[2] - 1>>
    ELSE <<x[1] - 1, Half - 1>>

Dec32(x) ==
    IF x[2] > 0 THEN <<x[1], x[2] - 1>>
    ELSE <<(x[1] + Half - 1) % Half, Half - 1>>

And32(x, y) == <<BitAnd(x[1], y[1]), BitAnd(x[2], y[2])>>

Less32(x, y) == x[1] < y[1] \/ (x[1] = y[1] /\ x[2] < y[2])

\* isPowerOfTwo without its first conjunct.
isPowerOfTwoNoZeroTest(v) == And32(v, Dec32(v)) = Zero32

\* (value != 0) && ((value & (value - 1)) == 0)
isPowerOfTwo(v) == (v # Zero32) /\ (And32(v, Dec32(v)) = Zero32)

\* ------------------------------------- ThreadChannel and WaitFreeFifo alone

\* The object after its constructor: both indices and the counter are 0, the
\* array has no initialiser.
EmptyQueue(s) ==
    [elements |-> [i \in 0 .. (s - 1) |-> Indeterminate],
     readPoint |-> 0, writePoint |-> 0, numElements |-> Zero32]

\* The mask advance with the size for a mask.
AdvanceMaskWrong(s, p) == BitAnd(p + 1, s)

\* ThreadChannel: (point + 1) & sizeMinusOne, sizeMinusOne being SIZE - 1
AdvanceMask(s, p) == BitAnd(p + 1, s - 1)

\* WaitFreeFifo and the ThreadChannel of MessageQueue.h: (point + 1) % S
AdvanceModulo(s, p) == (p + 1) % s

Advance(class, s, p) ==
    IF class = "ThreadChannel" THEN AdvanceMask(s, p) ELSE AdvanceModulo(s, p)

\* size(): the counter
QueueSize(q) == q.numElements

\* The assert of pushBack that fails on q, "no" if none does.
PushBackAssert(s, q) ==
    IF ~Less32(q.numElements, Uint32(s)) THEN "pushBack: numElements < SIZE"
    ELSE IF ~(q.writePoint < s) THEN "pushBack: writePoint < SIZE"
    ELSE "no"

\* The assert of popFront that fails on q, "no" if none does.
PopFrontAssert(s, q) ==
    IF ~Less32(Zero32, q.numElements) THEN "popFront: numElements > 0"
    ELSE IF ~(q.readPoint < s) THEN "popFront: readPoint < SIZE"
    ELSE "no"

\* pushBack after its asserts: the slot write, the index advance, fetch_add
PushBackStore(class, s, q, inEl) ==
    [q EXCEPT !.elements[q.writePoint] = inEl,
              !.writePoint = Advance(class, s, @),
              !.numElements = Inc32(@)]

\* popFront after its asserts and its slot read: the index advance, fetch_sub
PopFrontRemove(class, s, q) ==
    [q EXCEPT !.readPoint = Advance(class, s, @),
              !.numElements = Dec32(@)]

\* What a read of a slot can yield: the element copied into it last; a slot
\* nothing was copied into yet yields any value.
AnyElement == 0 .. 1
SlotRead(q) ==
    IF q.elements[q.readPoint] = Indeterminate THEN AnyElement
    ELSE {q.elements[q.readPoint]}

\* The variables of the channel-alone and static_assert steps while one of
\* the programs runs: the queue is instantiated with SIZE.
UnitsAtRest ==
    /\ value = Uint32(SIZE)
    /\ instantiated = "yes"
    /\ S = SIZE
    /\ build = "checked"
    /\ channel = EmptyQueue(SIZE)
    /\ fifo = EmptyQueue(SIZE)
    /\ returned = [op |-> "none"]
    /\ calls = [pushBack |-> 0, popFront |-> 0, misuse |-> 0]

NoneCompleted == [c \in Channels |-> [W |-> 0, I |-> 0, R |-> 0, D |-> 0]]

\* ------------------------------------------------------------------- Init

FirstInputPc(prog) == IF prog = "example" THEN "isFull" ELSE "pushMessage"

Init ==
    /\ program \in {"test", "example"}
    /\ numMessages \in 1 .. MaxNumMessages
    \* the test's threads push without a check: its queue is dimensioned for
    \* everything they push (queueSize is both SIZE and the push count)
    /\ program = "test" => 2 * numMessages <= SIZE
    /\ elements = [c \in Channels |-> [i \in Slots |-> Uninit]]
    /\ readPoint = [c \in Channels |-> 0]
    /\ writePoint = [c \in Channels |-> 0]
    /\ numElements = [c \in Channels |-> 0]
    /\ aborted = "no"
    /\ ipc = [c \in Channels |-> FirstInputPc(program)]
    /\ sent = [c \in Channels |-> 0]
    /\ inElement = [c \in Channels |-> Uninit]
    /\ opc = "poll"
    /\ channelIndex = 0
    /\ pendingMessages = 0
    /\ messageIndex = 0
    /\ receivedMessages = 0
    /\ returnElement = Uninit
    /\ pushed = [c \in Channels |-> <<>>]
    /\ popped = [c \in Channels |-> <<>>]
    /\ slotState = [c \in Channels |-> [i \in Slots |-> "unwritten"]]
    /\ wSlot = [c \in Channels |-> 0]
    /\ raced = FALSE
    \* both programs include LWMessageQueue.h; thread c is given the handle
    \* of channel c
    /\ header = "LWMessageQueue.h"
    /\ channelInput = [k \in Channels |-> InputHandle(k)]
    /\ channelOutput = [k \in Channels |-> OutputHandle(k)]
    /\ lastCall = [op |-> "none"]
    /\ pushedMessages = [c \in Channels |-> <<>>]
    /\ burst = [c \in Channels |-> [pushes |-> 0, pops |-> 0]]
    /\ completed = NoneCompleted
    /\ UnitsAtRest

\* ----------------------------------------------------------- input thread

\* pushBack with the increment moved to the front, before the slot write.
PushStepAfterIncFirst(step) ==
    CASE step = "pushMessage" -> "inc"
      [] step = "inc" -> "write"
      [] step = "write" -> "writing"
      [] step = "writing" -> "advance"
      [] step = "advance" -> "return"

\* The statements of pushBack in program order: the step that follows `step`.
\*   assert(numElements < SIZE); assert(writePoint < SIZE);   "pushMessage"
\*   elements[writePoint] = inElement;                        "write", "writing"
\*   writePoint = (writePoint + 1) & sizeMinusOne;            "advance"
\*   numElements.fetch_add(1);                                "inc"
PushStepAfter(step) ==
    CASE step = "pushMessage" -> "write"
      [] step = "write" -> "writing"
      [] step = "writing" -> "advance"
      [] step = "advance" -> "inc"
      [] step = "inc" -> "return"

\* The input thread of channel c goes on with `step`; on "return" pushBack and
\* pushMessage return and the thread's for loop goes on or ends.
InputGoto(c, step) ==
    IF step = "return"
    THEN /\ sent' = [sent EXCEPT ![c] = @ + 1]
         /\ ipc' = [ipc EXCEPT ![c] = IF sent[c] + 1 < numMessagesPerThread
                                      THEN FirstInputPc(program) ELSE "done"]
    ELSE /\ ipc' = [ipc EXCEPT ![c] = step]
         /\ UNCHANGED sent

\* example.cpp: assert(!inChannel.isFull()) before every push.
InputIsFull(c) ==
    /\ aborted = "no"
    /\ ipc[c] = "isFull"
    /\ IF isFull(getThreadChannelInput(c))
       THEN /\ aborted' = "example: !inChannel.isFull()"
            /\ UNCHANGED ipc
       ELSE /\ ipc' = [ipc EXCEPT ![c] = "pushMessage"]
            /\ UNCHANGED aborted
    /\ UNCHANGED <<chanVars, configVars, callerVars, unitVars, completed, sent, inElement, outputVars, pushed,
                   popped, slotState, wSlot, raced>>

\* pushMessage builds the container and calls pushBack, whose two assertions
\* are evaluated on entry (one load of the atomic; writePoint is the
\* producer's own).
InputPushMessage(c) ==
    /\ aborted = "no"
    /\ ipc[c] = "pushMessage"
    /\ LET ch == getThreadChannelInput(c)
           container == MakeContainer(program, c, sent[c])
       IN /\ inElement' = [inElement EXCEPT ![c] = container]
          /\ pushed' = [pushed EXCEPT ![c] = Append(@, container)]
          /\ IF ~(numElements[ch] < SIZE)
             THEN /\ aborted' = "pushBack: numElements < SIZE"
                  /\ UNCHANGED <<ipc, sent>>
             ELSE IF ~(writePoint[ch] < SIZE)
             THEN /\ aborted' = "pushBack: writePoint < SIZE"
                  /\ UNCHANGED <<ipc, sent>>
             ELSE /\ InputGoto(c, PushStepAfter("pushMessage"))
                  /\ UNCHANGED aborted
    /\ UNCHANGED <<chanVars, configVars, callerVars, unitVars, completed, outputVars, popped, slotState, wSlot,
                   raced>>

\* elements[writePoint] = inElement: the copy starts ...
PushWriteBegin(c) ==
    /\ aborted = "no"
    /\ ipc[c] = "write"
    /\ LET ch == getThreadChannelInput(c)
           w == writePoint[ch]
       IN /\ slotState' = [slotState EXCEPT ![ch][w] = "writing"]
          /\ wSlot' = [wSlot EXCEPT ![c] = w]
          /\ raced' = (raced \/ (opc = "reading"
                                 /\ getThreadChannelOutput(channelIndex) = ch
                                 /\ readPoint[ch] = w))
    /\ InputGoto(c, PushStepAfter("write"))
    /\ UNCHANGED <<chanVars, configVars, callerVars, unitVars, completed, aborted, inElement, outputVars,
                   pushed, popped>>

\* ... and ends.
PushWriteEnd(c) ==
    /\ aborted = "no"
    /\ ipc[c] = "writing"
    /\ LET ch == getThreadChannelInput(c)
           w == writePoint[ch]
       IN /\ elements' = [elements EXCEPT ![ch][w] = inElement[c]]
          /\ slotState' = [slotState EXCEPT ![ch][w] = "written"]
          /\ completed' = [completed EXCEPT ![ch].W = @ + 1]
    /\ InputGoto(c, PushStepAfter("writing"))
    /\ UNCHANGED <<readPoint, writePoint, numElements, configVars, callerVars, unitVars, aborted,
                   inElement, outputVars, pushed, popped, wSlot, raced>>

\* writePoint = (writePoint + 1) & sizeMinusOne
PushAdvance(c) ==
    /\ aborted = "no"
    /\ ipc[c] = "advance"
    /\ LET ch == getThreadChannelInput(c)
       IN writePoint' = [writePoint EXCEPT ![ch] = AdvancePoint(@)]
    /\ InputGoto(c, PushStepAfter("advance"))
    /\ UNCHANGED <<elements, readPoint, numElements, configVars, callerVars, unitVars, completed, aborted,
                   inElement, outputVars, pushed, popped, slotState, wSlot,
                   raced>>

\* A pushBack whose increment waits for a lock that popFront holds from its
\* slot read to its decrement.
PushIncrementLocked(c) ==
    /\ aborted = "no"
    /\ ipc[c] = "inc"
    /\ ~(/\ getThreadChannelOutput(channelIndex) = getThreadChannelInput(c)
          /\ opc \in {"read", "reading", "advance", "dec"})
    /\ LET ch == getThreadChannelInput(c)
       IN /\ numElements' = [numElements EXCEPT ![ch] = FetchAdd(@)]
          /\ slotState' = [slotState EXCEPT ![ch][wSlot[c]] =
                              IF @ = "written" THEN "published" ELSE @]
          /\ completed' = [completed EXCEPT ![ch].I = @ + 1]
    /\ InputGoto(c, PushStepAfter("inc"))
    /\ UNCHANGED <<elements, readPoint, writePoint, configVars, callerVars, unitVars, aborted,
                   inElement, outputVars, pushed, popped, wSlot, raced>>

\* numElements.fetch_add(1): the slot this pushBack wrote is published.
PushIncrement(c) ==
    /\ aborted = "no"
    /\ ipc[c] = "inc"
    /\ LET ch == getThreadChannelInput(c)
       IN /\ numElements' = [numElements EXCEPT ![ch] = FetchAdd(@)]
          /\ slotState' = [slotState EXCEPT ![ch][wSlot[c]] =
                              IF @ = "written" THEN "published" ELSE @]
          /\ completed' = [completed EXCEPT ![ch].I = @ + 1]
    /\ InputGoto(c, PushStepAfter("inc"))
    /\ UNCHANGED <<elements, readPoint, writePoint, configVars, callerVars, unitVars, aborted,
                   inElement, outputVars, pushed, popped, wSlot, raced>>

Input(c) ==
    \/ InputIsFull(c)
    \/ InputPushMessage(c)
    \/ PushWriteBegin(c)
    \/ PushWriteEnd(c)
    \/ PushAdvance(c)
    \/ PushIncrement(c)

\* ---------------------------------------------------------- output thread

\* A receive loop that pops one message more than the count it read.
PassLengthOneMore(prog, n) == IF prog = "test" THEN 1 ELSE n + 1

\* How many pops follow a poll that read n: the test pops one message when
\* getNumMessages() != 0, the example pops exactly n.
PassLength(prog, n) == IF prog = "test" THEN (IF n # 0 THEN 1 ELSE 0) ELSE n

\* The end of a pass on channel ch with recv messages received: the next
\* channel, or (after the last channel) the while condition.
AfterPass(ch, recv) ==
    IF ch + 1 < CHANNELS THEN <<"poll", ch + 1>>
    ELSE IF recv < totalMessages THEN <<"poll", 0>>
    ELSE <<"done", ch>>

\* popFront with the decrement moved to the front, before the slot read.
PopStepAfterDecFirst(step) ==
    CASE step = "popMessage" -> "dec"
      [] step = "dec" -> "read"
      [] step = "read" -> "reading"
      [] step = "reading" -> "advance"
      [] step = "advance" -> "return"

\* The statements of popFront in program order: the step that follows `step`.
\*   assert(numElements > 0); assert(readPoint < SIZE);       "popMessage"
\*   MessageContainer returnElement = elements[readPoint];    "read", "reading"
\*   readPoint = (readPoint + 1) & sizeMinusOne;              "advance"
\*   numElements.fetch_sub(1);                                "dec"
\*   return returnElement;
PopStepAfter(step) ==
    CASE step = "popMessage" -> "read"
      [] step = "read" -> "reading"
      [] step = "reading" -> "advance"
      [] step = "advance" -> "dec"
      [] step = "dec" -> "return"

\* The output thread goes on with `step`; on "return" popFront and popMessage
\* return the container to the caller.
OutputGoto(step) ==
    IF step = "return"
    THEN /\ popped' = [popped EXCEPT ![channelIndex] = Append(@, returnElement)]
         /\ opc' = "verify"
    ELSE /\ opc' = step
         /\ UNCHANGED popped

\* getNumMessages() on the channel's output handle, and the loop it bounds.
OutputPoll ==
    /\ aborted = "no"
    /\ opc = "poll"
    /\ LET n == getNumMessages(getThreadChannelOutput(channelIndex))
       IN /\ pendingMessages' = n
          /\ messageIndex' = 0
          /\ IF 0 < PassLength(program, n)
             THEN /\ opc' = "popMessage"
                  /\ UNCHANGED channelIndex
             ELSE /\ opc' = AfterPass(channelIndex, receivedMessages)[1]
                  /\ channelIndex' = AfterPass(channelIndex, receivedMessages)[2]
    /\ UNCHANGED <<chanVars, configVars, callerVars, unitVars, completed, aborted, inputVars, receivedMessages,
                   returnElement, pushed, popped, slotState, wSlot, raced>>

\* popMessage calls popFront, whose two assertions are evaluated on entry.
PopAssert ==
    /\ aborted = "no"
    /\ opc = "popMessage"
    /\ LET ch == getThreadChannelOutput(channelIndex)
       IN IF ~(numElements[ch] > 0)
          THEN /\ aborted' = "popFront: numElements > 0"
               /\ UNCHANGED <<opc, popped>>
          ELSE IF ~(readPoint[ch] < SIZE)
          THEN /\ aborted' = "popFront: readPoint < SIZE"
               /\ UNCHANGED <<opc, popped>>
          ELSE /\ OutputGoto(PopStepAfter("popMessage"))
               /\ UNCHANGED aborted
    /\ UNCHANGED <<chanVars, configVars, callerVars, unitVars, completed, inputVars, channelIndex,
                   pendingMessages, messageIndex, receivedMessages,
                   returnElement, pushed, slotState, wSlot, raced>>

\* MessageContainer returnElement = elements[readPoint]: the copy starts ...
PopReadBegin ==
    /\ aborted = "no"
    /\ opc = "read"
    /\ LET ch == getThreadChannelOutput(channelIndex)
       IN raced' = (slotState[ch][readPoint[ch]] = "writing")
    /\ OutputGoto(PopStepAfter("read"))
    /\ UNCHANGED <<chanVars, configVars, callerVars, unitVars, completed, aborted, inputVars, channelIndex,
                   pendingMessages, messageIndex, receivedMessages,
                   returnElement, pushed, slotState, wSlot>>

\* ... and ends.  A slot that was never written, or that was written while it
\* was read, yields any container.
PopReadEnd ==
    /\ aborted = "no"
    /\ opc = "reading"
    /\ LET ch == getThreadChannelOutput(channelIndex)
           r == readPoint[ch]
       IN /\ IF raced \/ elements[ch][r] = Uninit
             THEN returnElement' \in AnyContainer
             ELSE returnElement' = elements[ch][r]
          /\ slotState' = [slotState EXCEPT ![ch][r] =
                              IF @ \in {"written", "published"}
                              THEN "consumed" ELSE @]
          /\ completed' = [completed EXCEPT ![ch].R = @ + 1]
    /\ OutputGoto(PopStepAfter("reading"))
    /\ raced' = FALSE
    /\ UNCHANGED <<chanVars, configVars, callerVars, unitVars, aborted, inputVars, channelIndex,
                   pendingMessages, messageIndex, receivedMessages, pushed,
                   wSlot>>

\* readPoint = (readPoint + 1) & sizeMinusOne
PopAdvance ==
    /\ aborted = "no"
    /\ opc = "advance"
    /\ LET ch == getThreadChannelOutput(channelIndex)
       IN readPoint' = [readPoint EXCEPT ![ch] = AdvancePoint(@)]
    /\ OutputGoto(PopStepAfter("advance"))
    /\ UNCHANGED <<elements, writePoint, numElements, configVars, callerVars, unitVars, completed, aborted,
                   inputVars, channelIndex, pendingMessages, messageIndex,
                   receivedMessages, returnElement, pushed, slotState, wSlot,
                   raced>>

\* numElements.fetch_sub(1)
PopDecrement ==
    /\ aborted = "no"
    /\ opc = "dec"
    /\ LET ch == getThreadChannelOutput(channelIndex)
       IN /\ numElements' = [numElements EXCEPT ![ch] = FetchSub(@)]
          /\ completed' = [completed EXCEPT ![ch].D = @ + 1]
    /\ OutputGoto(PopStepAfter("dec"))
    /\ UNCHANGED <<elements, readPoint, writePoint, configVars, callerVars, unitVars, aborted,
                   inputVars, channelIndex, pendingMessages, messageIndex,
                   receivedMessages, returnElement, pushed, slotState, wSlot,
                   raced>>

\* The caller of popMessage: verifyMessage and ++receivedMessages, then the
\* next pop of the pass or the next channel.  A failed TEST_VERIFY throws and
\* ends the test's output thread; a failed assert ends the example.
OutputVerify ==
    /\ aborted = "no"
    /\ opc = "verify"
    /\ IF program = "test"
       THEN IF TestVerifyMessage(returnElement, channelIndex)
            THEN /\ receivedMessages' = receivedMessages + 1
                 /\ messageIndex' = messageIndex + 1
                 /\ opc' = AfterPass(channelIndex, receivedMessages + 1)[1]
                 /\ channelIndex' = AfterPass(channelIndex, receivedMessages + 1)[2]
                 /\ UNCHANGED aborted
            ELSE /\ opc' = "failed"
                 /\ UNCHANGED <<aborted, messageIndex, receivedMessages,
                                channelIndex>>
       ELSE /\ receivedMessages' = receivedMessages + 1
            /\ IF ExampleVerifyMessage(channelIndex, returnElement)
               THEN /\ messageIndex' = messageIndex + 1
                    /\ IF messageIndex + 1 < PassLength(program, pendingMessages)
                       THEN /\ opc' = "popMessage"
                            /\ UNCHANGED channelIndex
                       ELSE /\ opc' = AfterPass(channelIndex, receivedMessages + 1)[1]
                            /\ channelIndex' =
                                   AfterPass(channelIndex, receivedMessages + 1)[2]
                    /\ UNCHANGED aborted
               ELSE /\ aborted' = "example: verifyMessage"
                    /\ UNCHANGED <<opc, channelIndex, messageIndex>>
    /\ UNCHANGED <<chanVars, configVars, callerVars, unitVars, completed, inputVars, pendingMessages,
                   returnElement, pushed, popped, slotState, wSlot, raced>>

Output ==
    \/ OutputPoll
    \/ PopAssert
    \/ PopReadBegin
    \/ PopReadEnd
    \/ PopAdvance
    \/ PopDecrement
    \/ OutputVerify

\* ------------------------------------------------------------------- Spec

Next == (\E c \in Channels : Input(c)) \/ Output

Spec == Init /\ [][Next]_vars

\* Every thread is scheduled again and again.
FairSpec ==
    /\ Spec
    /\ \A c \in Channels : WF_vars(Input(c))
    /\ WF_vars(Output)

\* ------------------------------------------------ a single calling thread

\* One thread that owns every handle and makes the calls of the interface in
\* any order: the three single-thread tests, and the calls they leave out
\* (a push to a full channel, a pop from an empty one, a channel index out of
\* range, a handle copied or assigned).  With one thread a call is one step.
\* The build is the checked one: every assert is evaluated.

\* (index + 1) % QUEUE_SIZE of MessageQueue.h
AdvancePointModulo(p) == (p + 1) % SIZE

\* An index advance that leaves the index where it is.
NextPointStuck(h, p) == p

\* The index advance of the header the caller includes.
NextPoint(h, p) ==
    IF h = "MessageQueue.h" THEN AdvancePointModulo(p) ELSE AdvancePoint(p)

\* The channel indices a caller asks handles for: the valid ones and the
\* first one out of range.
RequestedChannels == 0 .. CHANNELS

\* The arguments of the pushMessage calls: the message of pushMessageTest,
\* the message of popMessageTest, and a Message3 under the tag of another
\* type.  MessageQueue.h takes the message only.
PushArguments ==
    {[T |-> "Message1", v |-> [value |-> 0], t |-> "Message1"],
     [T |-> "Message2", v |-> [charValue |-> 3, uintValue |-> 5],
      t |-> "Message2"],
     [T |-> "Message3",
      v |-> [stringRef |-> <<16, 32, 64, 0, 0, 0, 0, 0>>, uintValue |-> 258,
             doubleValue |-> <<0, 0, 0, 0, 0, 0, 248, 63>>],
      t |-> "Message1"]}

CallerInit ==
    /\ program = "calls"
    /\ numMessages = 0
    /\ header \in {"LWMessageQueue.h", "MessageQueue.h"}
    /\ elements = [c \in Channels |-> [i \in Slots |-> Uninit]]
    /\ readPoint = [c \in Channels |-> 0]
    /\ writePoint = [c \in Channels |-> 0]
    /\ numElements = [c \in Channels |-> 0]
    /\ aborted = "no"
    /\ ipc = [c \in Channels |-> "done"]
    /\ sent = [c \in Channels |-> 0]
    /\ inElement = [c \in Channels |-> Uninit]
    /\ opc = "done"
    /\ channelIndex = 0
    /\ pendingMessages = 0
    /\ messageIndex = 0
    /\ receivedMessages = 0
    /\ returnElement = Uninit
    /\ pushed = [c \in Channels |-> <<>>]
    /\ popped = [c \in Channels |-> <<>>]
    /\ slotState = [c \in Channels |-> [i \in Slots |-> "unwritten"]]
    /\ wSlot = [c \in Channels |-> 0]
    /\ raced = FALSE
    \* the handles of isFullTest, obtained before the first call
    /\ channelInput = [k \in Channels |-> InputHandle(k)]
    /\ channelOutput = [k \in Channels |-> OutputHandle(k)]
    /\ lastCall = [op |-> "none"]
    /\ pushedMessages = [c \in Channels |-> <<>>]
    /\ burst = [c \in Channels |-> [pushes |-> 0, pops |-> 0]]
    /\ completed = NoneCompleted
    /\ UnitsAtRest

threadVars == <<inputVars, opc, channelIndex, pendingMessages, messageIndex,
                receivedMessages, slotState, wSlot, raced>>

\* queue.getThreadChannelInput(inChannel) called once more; the handle it
\* returns is in lastCall.
CallGetThreadChannelInput(inChannel) ==
    /\ aborted = "no"
    /\ IF ChannelInRange(inChannel)
       THEN /\ lastCall' = [op |-> "getThreadChannelInput",
                            inChannel |-> inChannel,
                            result |-> InputHandle(inChannel)]
            /\ UNCHANGED aborted
       ELSE /\ lastCall' = [op |-> "getThreadChannelInput",
                            inChannel |-> inChannel]
            /\ aborted' = "getThreadChannelInput: inChannel < CHANNELS"
    /\ UNCHANGED <<chanVars, configVars, unitVars, completed, threadVars, returnElement, pushed,
                   popped, header, channelInput, channelOutput,
                   pushedMessages, burst>>

CallGetThreadChannelOutput(inChannel) ==
    /\ aborted = "no"
    /\ IF ChannelInRange(inChannel)
       THEN /\ lastCall' = [op |-> "getThreadChannelOutput",
                            inChannel |-> inChannel,
                            result |-> OutputHandle(inChannel)]
            /\ UNCHANGED aborted
       ELSE /\ lastCall' = [op |-> "getThreadChannelOutput",
                            inChannel |-> inChannel]
            /\ aborted' = "getThreadChannelOutput: inChannel < CHANNELS"
    /\ UNCHANGED <<chanVars, configVars, unitVars, completed, threadVars, returnElement, pushed,
                   popped, header, channelInput, channelOutput,
                   pushedMessages, burst>>

\* The copy constructor of a handle: the copy's reference member is bound to
\* the channel the source's refers to.
CopyHandle(other) == [other EXCEPT !.threadChannel = other.threadChannel]

\* ThreadChannelInput copy(channelInput[k]); the copy is in lastCall.
CallCopyInput(k) ==
    /\ aborted = "no"
    /\ lastCall' = [op |-> "copyInput", from |-> channelInput[k],
                    result |-> CopyHandle(channelInput[k])]
    /\ UNCHANGED <<chanVars, configVars, unitVars, completed, threadVars, returnElement, pushed,
                   popped, aborted, header, channelInput, channelOutput,
                   pushedMessages, burst>>

CallCopyOutput(k) ==
    /\ aborted = "no"
    /\ lastCall' = [op |-> "copyOutput", from |-> channelOutput[k],
                    result |-> CopyHandle(channelOutput[k])]
    /\ UNCHANGED <<chanVars, configVars, unitVars, completed, threadVars, returnElement, pushed,
                   popped, aborted, header, channelInput, channelOutput,
                   pushedMessages, burst>>

\* channelInput[k] = channelInput[j], the assignment of one handle to
\* another.  LWMessageQueue.h defaults operator=, and the default is deleted
\* for a class with a reference member; MessageQueue.h defines it as
\* threadChannel = other.threadChannel, the assignment of the referenced
\* ThreadChannel, whose operator= is deleted.  Either way the statement is
\* ill-formed: no program with it is built, no handle is rebound.
CallAssignInput(k, j) ==
    /\ aborted = "no"
    /\ k # j
    /\ lastCall' = [op |-> "assignInput", handle |-> k,
                    from |-> channelInput[j]]
    /\ aborted' = "ill-formed: ThreadChannelInput::operator="
    /\ UNCHANGED <<chanVars, configVars, unitVars, completed, threadVars, returnElement, pushed,
                   popped, header, channelInput, channelOutput,
                   pushedMessages, burst>>

CallAssignOutput(k, j) ==
    /\ aborted = "no"
    /\ k # j
    /\ lastCall' = [op |-> "assignOutput", handle |-> k,
                    from |-> channelOutput[j]]
    /\ aborted' = "ill-formed: ThreadChannelOutput::operator="
    /\ UNCHANGED <<chanVars, configVars, unitVars, completed, threadVars, returnElement, pushed,
                   popped, header, channelInput, channelOutput,
                   pushedMessages, burst>>

\* channelInput[k].isFull()
CallIsFull(k) ==
    /\ aborted = "no"
    /\ lastCall' = [op |-> "isFull", handle |-> k,
                    result |-> isFull(channelInput[k].threadChannel)]
    /\ UNCHANGED <<chanVars, configVars, unitVars, completed, threadVars, returnElement, pushed,
                   popped, aborted, header, channelInput, channelOutput,
                   pushedMessages, burst>>

\* channelOutput[k].getNumMessages()
CallGetNumMessages(k) ==
    /\ aborted = "no"
    /\ lastCall' = [op |-> "getNumMessages", handle |-> k,
                    result |-> getNumMessages(channelOutput[k].threadChannel)]
    /\ UNCHANGED <<chanVars, configVars, unitVars, completed, threadVars, returnElement, pushed,
                   popped, aborted, header, channelInput, channelOutput,
                   pushedMessages, burst>>

\* The pushes and pops of a channel since it was last empty, while they are
\* a run of pushes followed by a run of pops (pushes = 0: they are not).
BurstAfterPush(b, n) ==
    IF n = 0 THEN [pushes |-> 1, pops |-> 0]
    ELSE IF b.pushes > 0 /\ b.pops = 0 THEN [b EXCEPT !.pushes = @ + 1]
    ELSE [pushes |-> 0, pops |-> 0]

BurstAfterPop(b) ==
    IF b.pushes > 0 THEN [b EXCEPT !.pops = @ + 1] ELSE b

\* pushBack's first assert without the check.
PushBackHasRoomAlways(ch) == TRUE

\* assert(numElements < SIZE) of pushBack
PushBackHasRoom(ch) == numElements[ch] < SIZE

\* popFront's first assert without the check.
PopFrontHasElementAlways(ch) == TRUE

\* assert(numElements > 0) of popFront
PopFrontHasElement(ch) == numElements[ch] > 0

\* channelInput[k].pushMessage(v, t): the container is filled, pushBack
\* checks its two asserts, copies the container into the slot at writePoint,
\* advances writePoint and increments numElements.
CallPushMessage(k, a) ==
    LET ch == channelInput[k].threadChannel
        messageContainer ==
            FilledContainer(header, a.T, a.v, a.t, <<ch, Len(pushed[ch])>>)
    IN  /\ aborted = "no"
        /\ \/ Len(pushed[0]) + Len(pushed[1]) < MaxPushes
           \/ ~PushBackHasRoom(ch)
        /\ lastCall' = [op |-> "pushMessage", handle |-> k]
        /\ IF ~PushBackHasRoom(ch)
           THEN /\ aborted' = "pushBack: numElements < SIZE"
                /\ UNCHANGED <<chanVars, pushed, pushedMessages, burst,
                               completed>>
           ELSE IF ~(writePoint[ch] < SIZE)
           THEN /\ aborted' = "pushBack: writePoint < SIZE"
                /\ UNCHANGED <<chanVars, pushed, pushedMessages, burst,
                               completed>>
           ELSE /\ elements' = [elements EXCEPT
                                    ![ch][writePoint[ch]] = messageContainer]
                /\ writePoint' = [writePoint EXCEPT
                                    ![ch] = NextPoint(header, @)]
                /\ numElements' = [numElements EXCEPT ![ch] = FetchAdd(@)]
                /\ pushed' = [pushed EXCEPT ![ch] = Append(@, messageContainer)]
                /\ pushedMessages' = [pushedMessages EXCEPT ![ch] = Append(@, a)]
                /\ burst' = [burst EXCEPT
                                ![ch] = BurstAfterPush(@, numElements[ch])]
                /\ completed' = [completed EXCEPT ![ch].W = @ + 1,
                                                  ![ch].I = @ + 1]
                /\ UNCHANGED <<readPoint, aborted>>
        /\ UNCHANGED <<configVars, unitVars, threadVars, returnElement, popped, header,
                       channelInput, channelOutput>>

\* A popFront that returns a reference to the slot.
SlotReference(ch, i) == [slot |-> <<ch, i>>]

\* MessageContainer returnElement = elements[readPoint]; return returnElement;
\* the container is copied out of the slot and returned by value.
SlotCopy(ch, i) == elements[ch][i]

\* What the caller reads from the container popMessage returned to it.
ContainerRead(m) ==
    IF "slot" \in DOMAIN m THEN elements[m.slot[1]][m.slot[2]] ELSE m

\* channelOutput[k].popMessage(): popFront checks its two asserts, copies
\* the slot at readPoint, advances readPoint, decrements numElements and
\* returns the copy.
CallPopMessage(k) ==
    LET ch == channelOutput[k].threadChannel
    IN  /\ aborted = "no"
        /\ lastCall' = [op |-> "popMessage", handle |-> k]
        /\ IF ~PopFrontHasElement(ch)
           THEN /\ aborted' = "popFront: numElements > 0"
                /\ UNCHANGED <<chanVars, returnElement, popped, burst,
                               completed>>
           ELSE IF ~(readPoint[ch] < SIZE)
           THEN /\ aborted' = "popFront: readPoint < SIZE"
                /\ UNCHANGED <<chanVars, returnElement, popped, burst,
                               completed>>
           ELSE /\ returnElement' = SlotCopy(ch, readPoint[ch])
                /\ readPoint' = [readPoint EXCEPT ![ch] = NextPoint(header, @)]
                /\ numElements' = [numElements EXCEPT ![ch] = FetchSub(@)]
                /\ popped' = [popped EXCEPT ![ch] = Append(@, returnElement')]
                /\ burst' = [burst EXCEPT ![ch] = BurstAfterPop(@)]
                /\ completed' = [completed EXCEPT ![ch].R = @ + 1,
                                                  ![ch].D = @ + 1]
                /\ UNCHANGED <<elements, writePoint, aborted>>
        /\ UNCHANGED <<configVars, unitVars, threadVars, pushed, header, channelInput,
                       channelOutput, pushedMessages>>

CallerNext ==
    \/ \E c \in RequestedChannels : CallGetThreadChannelInput(c)
    \/ \E c \in RequestedChannels : CallGetThreadChannelOutput(c)
    \/ \E k \in Channels : CallCopyInput(k)
    \/ \E k \in Channels : CallCopyOutput(k)
    \/ \E k, j \in Channels : CallAssignInput(k, j)
    \/ \E k, j \in Channels : CallAssignOutput(k, j)
    \/ \E k \in Channels : CallIsFull(k)
    \/ \E k \in Channels : CallGetNumMessages(k)
    \/ \E k \in Channels : \E a \in PushArguments : CallPushMessage(k, a)
    \/ \E k \in Channels : CallPopMessage(k)

CallerSpec == CallerInit /\ [][CallerNext]_vars

\* ----------------------------------------------------------------- claims

IsPrefix(s, t) ==
    /\ Len(s) <= Len(t)
    /\ \A i \in 1 .. Len(s) : s[i] = t[i]

\* The steps of a running pushBack / popFront.
InPush(c) == ipc[c] \in {"write", "writing", "advance", "inc"}
InPop(c) ==
    /\ getThreadChannelOutput(channelIndex) = c
    /\ opc \in {"read", "reading", "advance", "dec"}

\* C1: per-channel FIFO under concurrency.  In every reachable state, for
\* every channel, the containers popMessage has returned so far are a prefix
\* of the containers handed to pushMessage on that channel, in push order.
C1_FifoPrefix ==
    \A c \in Channels : IsPrefix(popped[c], pushed[c])

\* C1 witness: after a wrap-around (SIZE pops done on the channel), the
\* producer is copying into a slot while the consumer is copying out of one.
C1_Witness ==
    \E c \in Channels :
        /\ Len(popped[c]) = SIZE
        /\ ipc[c] = "writing"
        /\ opc = "reading" /\ channelIndex = c

\* C2: no loss, no duplication, no cross-channel leakage.  Every container
\* popped from channel i was pushed into channel i and carries index i (the
\* verification of the program never fails), no pushed container is popped
\* twice, and once receivedMessages reaches CHANNELS * numMessagesPerThread
\* every channel has returned exactly what was pushed into it.
C2_NoLossNoDuplication ==
    /\ opc # "failed"
    /\ aborted # "example: verifyMessage"
    /\ \A c \in Channels : \A i \in 1 .. Len(popped[c]) :
          /\ popped[c][i].type \in {"Message1", "Message2"}
          /\ popped[c][i].seq[1] = c
          /\ \E j \in 1 .. Len(pushed[c]) : pushed[c][j] = popped[c][i]
          /\ IF program = "test"
             THEN TestVerifyMessage(popped[c][i], c)
             ELSE ExampleVerifyMessage(c, popped[c][i])
          /\ \A d \in Channels : \A j \in 1 .. Len(popped[d]) :
                popped[d][j].seq = popped[c][i].seq => (d = c /\ j = i)
    /\ receivedMessages <= totalMessages
    /\ receivedMessages = totalMessages =>
          \A c \in Channels :
              /\ Len(pushed[c]) = numMessagesPerThread
              /\ popped[c] = pushed[c]

\* C2 witness: the test's fan-in (no push is checked, the channel holds all a
\* thread pushes) has received everything.
C2_Witness ==
    /\ program = "test"
    /\ numMessagesPerThread <= SIZE
    /\ receivedMessages = totalMessages
    /\ opc = "done"

\* C3: a pass that pops the count it read never finds the channel empty.
\* While the pass has pops left, the channel holds at least as many messages
\* as the pass still pops (so assert(numElements > 0) holds), whatever the
\* producer has pushed meanwhile; and between passes the example's consumer
\* has popped exactly the count it read, the test's at most that count.
C3_PassBoundedReceive ==
    /\ aborted # "popFront: numElements > 0"
    /\ LET ch == getThreadChannelOutput(channelIndex)
           \* pops the pass still makes, the running one included
           left == (IF program = "example" THEN pendingMessages ELSE 1)
                   - messageIndex
       IN /\ opc \in {"popMessage", "read", "reading", "advance", "dec"} =>
                /\ left >= 1
                /\ pendingMessages >= 1
                /\ numElements[ch] >= left
          /\ opc = "verify" => numElements[ch] >= left - 1
    /\ opc \in {"poll", "done"} =>
          /\ messageIndex <= pendingMessages
          /\ program = "example" => messageIndex = pendingMessages

\* C3 witness: the example's consumer ends a pass of SIZE pops on a channel
\* into which the producer has pushed again during the pass.
C3_Witness ==
    /\ program = "example"
    /\ opc = "verify"
    /\ pendingMessages = SIZE
    /\ messageIndex + 1 = pendingMessages
    /\ numElements[channelIndex] >= 1

\* C4: check-then-push is safe.  A producer that saw isFull() = false finds
\* numElements < SIZE when pushBack evaluates its assertion, and that
\* assertion never fails.
C4_CheckThenPush ==
    /\ aborted # "pushBack: numElements < SIZE"
    /\ \A c \in Channels :
          (program = "example" /\ ipc[c] = "pushMessage") =>
              numElements[getThreadChannelInput(c)] < SIZE

\* C4 witness: between the check and the push of a producer that has already
\* wrapped around, the consumer is about to decrement the count.
C4_Witness ==
    \E c \in Channels :
        /\ program = "example"
        /\ ipc[c] = "pushMessage"
        /\ sent[c] >= SIZE
        /\ opc = "dec" /\ channelIndex = c

\* C5: published before read.  Whenever popFront is about to copy or is
\* copying elements[readPoint], that slot was completely written by a pushBack
\* whose fetch_add has taken place; no read overlaps a write of its slot; what
\* popFront has copied is a container that was pushed on the channel; and a
\* pushBack reaches its fetch_add only after its slot write is complete and
\* its write index advanced.
C5_PublishedBeforeRead ==
    /\ ~raced
    /\ LET ch == getThreadChannelOutput(channelIndex)
       IN /\ opc \in {"read", "reading"} =>
                /\ slotState[ch][readPoint[ch]] = "published"
                /\ elements[ch][readPoint[ch]] # Uninit
          /\ opc \in {"advance", "dec", "verify"} =>
                \E j \in 1 .. Len(pushed[ch]) : pushed[ch][j] = returnElement
    /\ \A c \in Channels :
          ipc[c] = "inc" =>
              /\ slotState[getThreadChannelInput(c)][wSlot[c]] = "written"
              /\ writePoint[getThreadChannelInput(c)] = (wSlot[c] + 1) % SIZE

\* C5 witness: the consumer copies a slot out while the producer of the same
\* channel copies the next message into another slot.
C5_Witness ==
    /\ opc = "reading"
    /\ ipc[channelIndex] = "writing"
    /\ readPoint[channelIndex] # writePoint[channelIndex]
    /\ slotState[channelIndex][writePoint[channelIndex]] = "writing"

\* Slots of channel c that hold a pushed message whose read has not ended.
Unread(c) == {i \in Slots : slotState[c][i] \in {"written", "published"}}

\* C6: slot exclusivity.  The producer is never copying into the slot the
\* consumer is copying out of, and a pushBack that has passed its assertions
\* writes a slot that holds no message whose read has not ended.
C6_SlotExclusivity ==
    /\ ~raced
    /\ \A c \in Channels :
          LET ch == getThreadChannelInput(c)
          IN /\ ~(/\ ipc[c] = "writing"
                  /\ opc = "reading"
                  /\ getThreadChannelOutput(channelIndex) = ch
                  /\ readPoint[ch] = writePoint[ch])
             /\ ipc[c] = "write" => writePoint[ch] \notin Unread(ch)
             /\ ipc[c] = "writing" => slotState[ch][writePoint[ch]] = "writing"

\* C6 witness: a producer that has wrapped around is copying into a slot the
\* consumer has read before, while the consumer is copying out of the other.
C6_Witness ==
    \E c \in Channels :
        /\ sent[c] >= SIZE
        /\ ipc[c] = "writing"
        /\ opc = "reading" /\ channelIndex = c
        /\ elements[c][writePoint[c]] # Uninit

\* No pushBack and no popFront is running on channel c.
Quiescent(c) == ~InPush(c) /\ ~InPop(c)

\* C7: occupancy accuracy.  With no operation in progress on a channel,
\* size() is the number of completed pushes minus the number of completed
\* pops, and lies in 0 .. SIZE.
C7_OccupancyAccuracy ==
    \A c \in Channels :
        Quiescent(c) =>
            /\ Len(popped[c]) <= sent[c]
            /\ size(c) = sent[c] - Len(popped[c])
            /\ size(c) \in 0 .. SIZE

\* C7 witness: an idle channel after SIZE + 1 pushes and SIZE pops.
C7_Witness ==
    \E c \in Channels :
        /\ Quiescent(c)
        /\ sent[c] = SIZE + 1
        /\ Len(popped[c]) = SIZE
        /\ size(c) = 1

\* C8 as stated: in every reachable state the count equals the number of
\* slots fully written by a push and not yet read by a pop.
C8_CountEqualsUnreadAlways ==
    \A c \in Channels : numElements[c] = Cardinality(Unread(c))

\* A pushBack on c has completed its slot write and not yet its fetch_add; a
\* popFront on c has completed its slot read and not yet its fetch_sub.
WrittenNotCounted(c) == IF ipc[c] \in {"advance", "inc"} THEN 1 ELSE 0
ReadNotCounted(c) ==
    IF getThreadChannelOutput(channelIndex) = c /\ opc \in {"advance", "dec"}
    THEN 1 ELSE 0

\* C8 amended: the count equals the number of fully written, not yet read
\* slots, minus one while a pushBack is between its slot write and its
\* increment, plus one while a popFront is between its slot read and its
\* decrement; so the two are equal whenever no operation is in such a window.
C8_CountTracksUnread ==
    \A c \in Channels :
        numElements[c] =
            Cardinality(Unread(c)) - WrittenNotCounted(c) + ReadNotCounted(c)

\* C8 witness: a pushBack after wrap-around has written its slot and not yet
\* incremented, no popFront runs: one more unread slot than the count says.
C8_Witness ==
    \E c \in Channels :
        /\ sent[c] >= SIZE
        /\ ipc[c] = "inc"
        /\ ~InPop(c)
        /\ Cardinality(Unread(c)) = numElements[c] + 1

\* Everything was pushed, everything was received, every thread has ended.
AllDelivered ==
    /\ opc = "done"
    /\ receivedMessages = totalMessages
    /\ \A c \in Channels :
          /\ ipc[c] = "done"
          /\ Len(pushed[c]) = numMessagesPerThread
          /\ popped[c] = pushed[c]

\* The run has ended as C9 describes, or it is none of C9's runs (a producer
\* pushes more than SIZE messages).
DeliveredOrOversized == 2 * numMessages > SIZE \/ AllDelivered

\* C9: liveness of the receive loop.  When every producer pushes no more than
\* SIZE messages and every thread keeps being scheduled, eventually every
\* producer has ended, the consumer has received all CHANNELS *
\* numMessagesPerThread messages and left its loop, and every pushed message
\* has been popped.
C9_ReceiveLoopTerminates == <>DeliveredOrOversized

\* C9 witness: the run of producers that push no more than SIZE has ended.
C9_Witness ==
    /\ numMessagesPerThread <= SIZE
    /\ AllDelivered

\* How far a thread is into its operation: isFull() and getNumMessages() are
\* one step, pushMessage and popMessage five.
StepRank(pc) ==
    CASE pc \in {"isFull", "poll"} -> 0
      [] pc \in {"pushMessage", "popMessage"} -> 1
      [] pc \in {"write", "read"} -> 2
      [] pc \in {"writing", "reading"} -> 3
      [] pc = "advance" -> 4
      [] pc \in {"inc", "dec"} -> 5
      [] OTHER -> 6

\* Every thread that has not ended can take its next step, whatever the
\* other threads are doing.
AlwaysEnabled ==
    aborted = "no" =>
        /\ \A c \in Channels : ipc[c] # "done" => ENABLED Input(c)
        /\ opc \notin {"done", "failed"} => ENABLED Output

\* A step inside pushMessage or popMessage moves to a later statement of the
\* operation or returns from it: no step goes back or starts over.
NoRetry ==
    /\ \A c \in Channels :
          (InPush(c) \/ ipc[c] = "pushMessage") /\ ipc'[c] # ipc[c] =>
              \/ StepRank(ipc'[c]) > StepRank(ipc[c])
              \/ sent'[c] = sent[c] + 1
    /\ opc \in {"popMessage", "read", "reading", "advance", "dec"}
          /\ opc' # opc =>
              StepRank(opc') > StepRank(opc)

\* C10: wait-freedom.  In every reachable state every step of isFull,
\* pushMessage, getNumMessages and popMessage is enabled regardless of the
\* other threads, and every step of an operation advances it, so an operation
\* ends within a fixed number (one, or five) of its thread's own steps.
C10_WaitFree == []AlwaysEnabled /\ [][NoRetry]_vars

\* C10 witness: producer and consumer are both before the last step of an
\* operation on the same channel, each with the other's update outstanding.
C10_Witness ==
    \E c \in Channels :
        /\ aborted = "no"
        /\ ipc[c] = "inc"
        /\ opc = "dec" /\ channelIndex = c
        /\ ENABLED PushIncrement(c)
        /\ ENABLED PopDecrement

\* ------------------------------------------ claims on the calling thread

\* C11: round trip through a channel.  The container the k-th popMessage of
\* a channel returned has the tag the k-th pushMessage of the channel was
\* given (getType, LWMessageQueue.h) and, read as the payload type that was
\* pushed, the value that was pushed, field for field.
C11_RoundTrip ==
    \A c \in Channels : \A k \in 1 .. Len(popped[c]) :
        LET a == pushedMessages[c][k]
            m == popped[c][k]
        IN  /\ header = "LWMessageQueue.h" => getType(m) = a.t
            /\ getMessage(a.T, m) = a.v

\* C11 witness: a Message3 (pointer, integer and double) pushed under the
\* tag of another type and a Message2 have both come back from a pop.
C11_Witness ==
    /\ header = "LWMessageQueue.h"
    /\ aborted = "no"
    /\ lastCall.op = "popMessage"
    /\ \E c \in Channels : \E k \in 1 .. Len(popped[c]) :
          /\ pushedMessages[c][k].T = "Message3"
          /\ pushedMessages[c][k].T # pushedMessages[c][k].t
    /\ \E c \in Channels : \E k \in 1 .. Len(popped[c]) :
          pushedMessages[c][k].T = "Message2"

\* C12: isFull.  With no operation in progress, what isFull() returned is
\* whether the pushes of the handle's channel that were not popped yet are
\* exactly SIZE: false below SIZE, true at SIZE, false again after a pop.
C12_IsFullIffAtCapacity ==
    lastCall.op = "isFull" =>
        LET c == channelInput[lastCall.handle].inChannel
        IN  lastCall.result = (Len(pushed[c]) - Len(popped[c]) = SIZE)

\* C12 witness: isFull() returned false on a channel that was filled by SIZE
\* pushes in a row and then popped once.
C12_Witness ==
    /\ lastCall.op = "isFull"
    /\ lastCall.result = FALSE
    /\ burst[channelInput[lastCall.handle].inChannel]
           = [pushes |-> SIZE, pops |-> 1]

\* The four fields of channel j are the same before and after the step.
ChannelUnchanged(j) ==
    /\ elements'[j] = elements[j]
    /\ readPoint'[j] = readPoint[j]
    /\ writePoint'[j] = writePoint[j]
    /\ numElements'[j] = numElements[j]

\* A step is a pushMessage / popMessage call that returned.
PushReturns == lastCall'.op = "pushMessage" /\ aborted' = "no"
PopReturns == lastCall'.op = "popMessage" /\ aborted' = "no"

\* What a returning push or pop does to channel j.
ChannelIndependence ==
    \A j \in Channels :
        /\ PushReturns =>
              LET i == channelInput[lastCall'.handle].inChannel
              IN  /\ numElements'[getThreadChannelOutput(j)]
                         # numElements[getThreadChannelOutput(j)]
                        <=> i = j
                  /\ i # j => ChannelUnchanged(j)
        /\ PopReturns =>
              LET i == channelOutput[lastCall'.handle].inChannel
              IN  i # j => ChannelUnchanged(j)

\* C13: channel identity and independence.  A push through the handle
\* getThreadChannelInput(i) gave changes the count the handle
\* getThreadChannelOutput(j) gave observes exactly when i = j, and a push or
\* a pop through a handle of channel i leaves the slots, the read index, the
\* write index and the count of every other channel as they were.
C13_ChannelIndependence == [][ChannelIndependence]_vars

\* C13 witness: a push through the handle of channel 1 returned while
\* channel 0 held a message and had been pushed to and popped from.
C13_Witness ==
    /\ lastCall.op = "pushMessage"
    /\ aborted = "no"
    /\ channelInput[lastCall.handle].inChannel = 1
    /\ Len(pushed[1]) >= 1
    /\ Len(popped[0]) >= 1
    /\ numElements[0] >= 1

\* The pushes of channel c that no pop has returned yet.
Unpopped(c) == Len(pushed[c]) - Len(popped[c])

\* A pushMessage call on a channel with SIZE unpopped pushes fails
\* assert(numElements < SIZE) and changes nothing of any channel.
PushToFullFails ==
    /\ lastCall'.op = "pushMessage"
    /\ Unpopped(channelInput[lastCall'.handle].inChannel) = SIZE
    =>
        /\ aborted' = "pushBack: numElements < SIZE"
        /\ elements' = elements
        /\ readPoint' = readPoint
        /\ writePoint' = writePoint
        /\ numElements' = numElements

\* C14: a push to a full channel is a fatal contract violation, never a
\* silent drop.  In the checked build the call fails the assertion before a
\* slot, the write index or the count is modified: no queued message is
\* overwritten or lost.
C14_PushToFullFails == [][PushToFullFails]_vars

\* C14 witness: the assertion ended a run whose channel was full after its
\* indices had wrapped; the SIZE queued messages are still in the slots.
C14_Witness ==
    /\ aborted = "pushBack: numElements < SIZE"
    /\ lastCall.op = "pushMessage"
    /\ LET c == channelInput[lastCall.handle].inChannel
       IN  /\ Len(popped[c]) >= 1
           /\ Unpopped(c) = SIZE
           /\ \A k \in 1 .. SIZE :
                 \E i \in Slots : elements[c][i] = pushed[c][Len(popped[c]) + k]

\* A popMessage call on a channel with no unpopped push fails
\* assert(numElements > 0), changes nothing of any channel and returns no
\* container.
PopFromEmptyFails ==
    /\ lastCall'.op = "popMessage"
    /\ Unpopped(channelOutput[lastCall'.handle].inChannel) = 0
    =>
        /\ aborted' = "popFront: numElements > 0"
        /\ elements' = elements
        /\ readPoint' = readPoint
        /\ writePoint' = writePoint
        /\ numElements' = numElements
        /\ returnElement' = returnElement
        /\ popped' = popped

\* C15: a pop from an empty channel is a fatal contract violation.  In the
\* checked build the call fails the assertion before a slot is read and
\* before the read index or the count is modified; no container is returned.
C15_PopFromEmptyFails == [][PopFromEmptyFails]_vars

\* C15 witness: the assertion ended a run whose channel was empty again
\* after pushes and pops (the slot at readPoint still holds an old message).
C15_Witness ==
    /\ aborted = "popFront: numElements > 0"
    /\ lastCall.op = "popMessage"
    /\ LET c == channelOutput[lastCall.handle].inChannel
       IN  /\ Len(popped[c]) >= 1
           /\ Unpopped(c) = 0
           /\ elements[c][readPoint[c]] # Uninit
           /\ returnElement = popped[c][Len(popped[c])]

\* What a call of getThreadChannelInput / getThreadChannelOutput does.
HandleGetter ==
    lastCall'.op \in {"getThreadChannelInput", "getThreadChannelOutput"} =>
        /\ IF lastCall'.inChannel >= CHANNELS
           THEN /\ aborted' = lastCall'.op \o ": inChannel < CHANNELS"
                /\ "result" \notin DOMAIN lastCall'
           ELSE /\ aborted' = "no"
                /\ lastCall'.result.threadChannel = lastCall'.inChannel
        /\ chanVars' = chanVars

\* C16: getThreadChannelInput(c) and getThreadChannelOutput(c) with
\* c >= CHANNELS fail the assertion in the checked build and hand out no
\* handle; with c < CHANNELS they return a handle bound to channel c; in
\* both cases no channel's state changes.
C16_HandleGetter == [][HandleGetter]_vars

\* C16 witness: a run that had used the queue was ended by
\* getThreadChannelOutput(CHANNELS).
C16_Witness ==
    /\ aborted = "getThreadChannelOutput: inChannel < CHANNELS"
    /\ lastCall.op = "getThreadChannelOutput"
    /\ lastCall.inChannel = CHANNELS
    /\ numElements[1] >= 1

\* C17: discriminant identity of the variant with the derived tag
\* (MessageQueue.h).  A container pushMessage(v) built from a v of type T and
\* a pop returned answers isOfType<U>() with true exactly for U = T,
\* whichever channel it went through.
C17_DiscriminantIdentity ==
    header = "MessageQueue.h" =>
        \A c \in Channels : \A k \in 1 .. Len(popped[c]) :
            \A U \in PayloadTypes :
                isOfType(U, popped[c][k]) <=> U = pushedMessages[c][k].T

\* C17 witness: with MessageQueue.h, containers of two payload types have
\* come back from the two channels.
C17_Witness ==
    /\ header = "MessageQueue.h"
    /\ aborted = "no"
    /\ Len(popped[0]) >= 1
    /\ Len(popped[1]) >= 1
    /\ pushedMessages[0][1].T # pushedMessages[1][1].T

\* What the claim says of a handle that is copied or assigned: no channel
\* changes, and the handle then refers to the channel of its source.
HandleCopyAssign ==
    /\ lastCall'.op \in {"copyInput", "copyOutput"} =>
          /\ chanVars' = chanVars
          /\ lastCall'.result.threadChannel = lastCall'.from.threadChannel
    /\ lastCall'.op = "assignInput" =>
          /\ chanVars' = chanVars
          /\ channelInput'[lastCall'.handle].threadChannel
                 = lastCall'.from.threadChannel
    /\ lastCall'.op = "assignOutput" =>
          /\ chanVars' = chanVars
          /\ channelOutput'[lastCall'.handle].threadChannel
                 = lastCall'.from.threadChannel

\* C18: copying or reassigning an input or output handle does not change
\* the state of the channel it referred to before or refers to afterwards,
\* and the handle afterwards refers to the same channel as the handle it was
\* copied from.  The copy constructors do this; both operator= are
\* ill-formed when used, so an assigned handle never refers to the channel
\* of its source.
C18_HandleCopyAssign == [][HandleCopyAssign]_vars

\* C19: sequential FIFO across wrap-around.  From an empty, idle channel
\* with its indices anywhere, k pushes (1 <= k <= SIZE) with no pop in
\* between followed by pops return the pushed containers in push order, and
\* after the k-th pop the channel is empty with readPoint = writePoint.
C19_SequentialFifo ==
    \A c \in Channels :
        LET b == burst[c]
            np == Len(pushed[c])
            nq == Len(popped[c])
        IN  b.pushes >= 1 =>
                /\ b.pushes <= SIZE
                /\ b.pops <= b.pushes
                /\ SubSeq(popped[c], nq - b.pops + 1, nq)
                       = SubSeq(pushed[c], np - b.pushes + 1,
                                np - b.pushes + b.pops)
                /\ b.pops = b.pushes =>
                      numElements[c] = 0 /\ readPoint[c] = writePoint[c]

\* C19 witness: SIZE pushes and then SIZE pops have returned on a channel
\* that was empty with both indices at 1, so the run went around the end of
\* the array.
C19_Witness ==
    \E c \in Channels :
        /\ burst[c] = [pushes |-> SIZE, pops |-> SIZE]
        /\ Len(pushed[c]) = SIZE + 1
        /\ readPoint[c] = 1
        /\ aborted = "no"

\* ------------------------------------- more claims on the two programs

\* C20: bounds of the channel fields.  While the callers keep the contract,
\* readPoint and writePoint of every channel are in 0 .. SIZE - 1 and
\* numElements is in 0 .. SIZE, so assert(writePoint < SIZE) and
\* assert(readPoint < SIZE) never fail.
C20_FieldBounds ==
    /\ \A c \in Channels :
          /\ readPoint[c] \in 0 .. (SIZE - 1)
          /\ writePoint[c] \in 0 .. (SIZE - 1)
          /\ numElements[c] \in 0 .. SIZE
    /\ aborted \notin {"pushBack: writePoint < SIZE",
                       "popFront: readPoint < SIZE"}

\* C20 witness: a channel is full with both indices at the last slot, the
\* write index having gone around the end of the array.
C20_Witness ==
    \E c \in Channels :
        /\ aborted = "no"
        /\ numElements[c] = SIZE
        /\ readPoint[c] = SIZE - 1
        /\ writePoint[c] = SIZE - 1
        /\ Len(pushed[c]) > SIZE


\* C22: dimensioning instead of a check.  As long as no more than SIZE
\* pushMessage calls were ever made on a channel, each of them finds
\* numElements < SIZE on entry and the assertion of pushBack does not fail,
\* whatever the output thread has done meanwhile; isFull() is not needed.
C22_DimensionedNeverFull ==
    \A c \in Channels :
        /\ (ipc[c] = "pushMessage" /\ Len(pushed[c]) < SIZE) =>
               numElements[getThreadChannelInput(c)] < SIZE
        /\ Len(pushed[c]) <= SIZE => aborted # "pushBack: numElements < SIZE"

\* The test's input threads, which never call isFull(), have made SIZE pushes
\* each while the output thread has not popped anything.
C22_Witness ==
    /\ program = "test"
    /\ aborted = "no"
    /\ \A c \in Channels :
           /\ Len(pushed[c]) = SIZE
           /\ ipc[c] = "done"
           /\ popped[c] = <<>>
           /\ numElements[c] = SIZE

\* C23: the container popMessage returned is a copy.  It holds what the slot
\* held when it was read, and a later pushMessage, also one that writes the
\* same slot again after the indices wrapped around, leaves its type and its
\* payload as they were.
C23_PoppedCopyIndependent ==
    [][/\ (lastCall'.op = "popMessage" /\ aborted' = "no") =>
              \E ch \in Channels :
                  /\ Len(popped'[ch]) = Len(popped[ch]) + 1
                  /\ ContainerRead(returnElement)' =
                         elements[ch][readPoint[ch]]
       /\ (lastCall'.op = "pushMessage" /\ aborted' = "no") =>
              ContainerRead(returnElement)' = ContainerRead(returnElement)]_vars

\* The first container pushed on a channel was popped, and the third push on
\* that channel has written its slot again; the caller still holds the first.
C23_Witness ==
    \E ch \in Channels :
        /\ Len(pushed[ch]) = SIZE + 1
        /\ Len(popped[ch]) = 1
        /\ lastCall.op = "pushMessage"
        /\ aborted = "no"
        /\ elements[ch][0] = pushed[ch][SIZE + 1]
        /\ returnElement = pushed[ch][1]
        /\ returnElement # elements[ch][0]

\* C25: one-sided staleness.  A step that is not the output thread's never
\* decreases numElements of a channel, and a step that is not the step of the
\* channel's input thread never increases it.  Hence the count the output
\* thread read stays a lower bound of the channel's count until it pops, and
\* the count below SIZE an input thread saw stays so until it pushes.
C25_OneSidedStaleness ==
    /\ [][\A c \in Channels :
              /\ ~Output =>
                     numElements'[getThreadChannelInput(c)]
                         >= numElements[getThreadChannelInput(c)]
              /\ ~Input(c) =>
                     numElements'[getThreadChannelInput(c)]
                         <= numElements[getThreadChannelInput(c)]]_vars
    /\ [](/\ (opc = "popMessage" /\ messageIndex = 0) =>
                 pendingMessages
                     <= numElements[getThreadChannelOutput(channelIndex)]
          /\ \A c \in Channels :
                 (program = "example" /\ ipc[c] = "pushMessage") =>
                     numElements[getThreadChannelInput(c)] < SIZE)

\* The output thread read the count 1 and has not popped yet; the input
\* thread has pushed again since, the count is 2.
C25_Witness ==
    /\ opc = "popMessage"
    /\ messageIndex = 0
    /\ pendingMessages = 1
    /\ numElements[getThreadChannelOutput(channelIndex)] = 2

\* C26: the four counts of a channel.  With W slot writes, I increments, R
\* slot reads and D decrements completed on it: I <= W <= I + 1,
\* D <= R <= D + 1, numElements = I - D, R <= I and W - D <= SIZE; so
\* numElements and W - R differ by at most one.
C26_StepCounts ==
    \A c \in Channels :
        LET W == completed[c].W
            I == completed[c].I
            R == completed[c].R
            D == completed[c].D
        IN  /\ I <= W /\ W <= I + 1
            /\ D <= R /\ R <= D + 1
            /\ numElements[c] = I - D
            /\ R <= I
            /\ W - D <= SIZE
            /\ numElements[c] - (W - R) \in {-1, 0, 1}

\* A pushBack is between its slot write and its increment while a popFront
\* on the same channel is between its slot read and its decrement, and the
\* writes are SIZE ahead of the decrements.
C26_Witness ==
    \E c \in Channels :
        /\ completed[c].W = completed[c].I + 1
        /\ completed[c].R = completed[c].D + 1
        /\ completed[c].W - completed[c].D = SIZE

\* C27: the indices and the count of a channel at rest.  In every state in
\* which no pushBack and no popFront is in progress on a channel,
\* writePoint = (readPoint + numElements) mod SIZE, and readPoint = writePoint
\* exactly when the channel is empty or full.
C27_IndexRelation ==
    \A c \in Channels :
        Quiescent(c) =>
            /\ writePoint[c] = (readPoint[c] + numElements[c]) % SIZE
            /\ readPoint[c] = writePoint[c] <=> numElements[c] \in {0, SIZE}

\* A channel at rest is full with both indices at the last slot: the write
\* index has wrapped around once.
C27_Witness ==
    \E c \in Channels :
        /\ Quiescent(c)
        /\ numElements[c] = SIZE
        /\ readPoint[c] = SIZE - 1
        /\ writePoint[c] = SIZE - 1

\* ----------------------------------- one ThreadChannel and one WaitFreeFifo

\* A ThreadChannel (index advance by mask) and a WaitFreeFifo (index advance
\* by modulo) of the same size S are constructed and given the same calls by
\* one thread.  The element of the k-th pushBack is k.

MaxWraps == 2
MaxMisuses == 2

\* No program of the queue runs.
ProgramsAtRest ==
    /\ program = "none"
    /\ numMessages = 0
    /\ header = "LWMessageQueue.h"
    /\ elements = [c \in Channels |-> [i \in Slots |-> Uninit]]
    /\ readPoint = [c \in Channels |-> 0]
    /\ writePoint = [c \in Channels |-> 0]
    /\ numElements = [c \in Channels |-> 0]
    /\ aborted = "no"
    /\ ipc = [c \in Channels |-> "done"]
    /\ sent = [c \in Channels |-> 0]
    /\ inElement = [c \in Channels |-> Uninit]
    /\ opc = "done"
    /\ channelIndex = 0
    /\ pendingMessages = 0
    /\ messageIndex = 0
    /\ receivedMessages = 0
    /\ returnElement = Uninit
    /\ pushed = [c \in Channels |-> <<>>]
    /\ popped = [c \in Channels |-> <<>>]
    /\ slotState = [c \in Channels |-> [i \in Slots |-> "unwritten"]]
    /\ wSlot = [c \in Channels |-> 0]
    /\ raced = FALSE
    /\ channelInput = [k \in Channels |-> InputHandle(k)]
    /\ channelOutput = [k \in Channels |-> OutputHandle(k)]
    /\ lastCall = [op |-> "none"]
    /\ pushedMessages = [c \in Channels |-> <<>>]
    /\ burst = [c \in Channels |-> [pushes |-> 0, pops |-> 0]]
    /\ completed = NoneCompleted

FifoInit ==
    /\ ProgramsAtRest
    /\ S \in {Pow2(k) : k \in 0 .. (SizeLog2 + 1)}
    /\ value = Uint32(S)
    /\ instantiated = "yes"
    /\ build \in {"checked", "NDEBUG"}
    /\ channel = EmptyQueue(S)
    /\ fifo = EmptyQueue(S)
    /\ returned = [op |-> "none"]
    /\ calls = [pushBack |-> 0, popFront |-> 0, misuse |-> 0]

\* The assert that stops a call on q in this build.
Stops(assertion) == IF build = "NDEBUG" THEN "no" ELSE assertion

\* channel.pushBack(k); fifo.pushBack(k);
BothPushBack ==
    LET inEl == calls.pushBack + 1
        misuse == PushBackAssert(S, channel) # "no"
    IN  /\ aborted = "no"
        /\ calls.pushBack < MaxWraps * S + 1
        /\ misuse => calls.misuse < MaxMisuses
        /\ calls' = [calls EXCEPT !.pushBack = @ + 1,
                                  !.misuse = IF misuse THEN @ + 1 ELSE @]
        /\ returned' = [op |-> "pushBack"]
        /\ IF Stops(PushBackAssert(S, channel)) # "no"
           THEN /\ aborted' = PushBackAssert(S, channel)
                /\ UNCHANGED <<channel, fifo>>
           ELSE /\ channel' = PushBackStore("ThreadChannel", S, channel, inEl)
                /\ IF Stops(PushBackAssert(S, fifo)) # "no"
                   THEN /\ aborted' = PushBackAssert(S, fifo)
                        /\ UNCHANGED fifo
                   ELSE /\ fifo' = PushBackStore("WaitFreeFifo", S, fifo, inEl)
                        /\ UNCHANGED aborted
        /\ UNCHANGED <<S, build, value, instantiated>>
        /\ UNCHANGED <<chanVars, configVars, callerVars, inputVars, opc,
                       channelIndex, pendingMessages, messageIndex,
                       receivedMessages, returnElement, historyVars,
                       completed>>

\* a = channel.popFront(); b = fifo.popFront();
BothPopFront ==
    LET misuse == PopFrontAssert(S, channel) # "no"
    IN  /\ aborted = "no"
        /\ calls.popFront < MaxWraps * S + 1
        /\ misuse => calls.misuse < MaxMisuses
        /\ calls' = [calls EXCEPT !.popFront = @ + 1,
                                  !.misuse = IF misuse THEN @ + 1 ELSE @]
        /\ IF Stops(PopFrontAssert(S, channel)) # "no"
           THEN /\ aborted' = PopFrontAssert(S, channel)
                /\ returned' = [op |-> "popFront"]
                /\ UNCHANGED <<channel, fifo>>
           ELSE /\ channel' = PopFrontRemove("ThreadChannel", S, channel)
                /\ IF Stops(PopFrontAssert(S, fifo)) # "no"
                   THEN /\ aborted' = PopFrontAssert(S, fifo)
                        /\ \E a \in SlotRead(channel) :
                               returned' = [op |-> "popFront", channel |-> a]
                        /\ UNCHANGED fifo
                   ELSE /\ fifo' = PopFrontRemove("WaitFreeFifo", S, fifo)
                        /\ \E a \in SlotRead(channel), b \in SlotRead(fifo) :
                               returned' = [op |-> "popFront",
                                            channel |-> a, fifo |-> b]
                        /\ UNCHANGED aborted
        /\ UNCHANGED <<S, build, value, instantiated>>
        /\ UNCHANGED <<chanVars, configVars, callerVars, inputVars, opc,
                       channelIndex, pendingMessages, messageIndex,
                       receivedMessages, returnElement, historyVars,
                       completed>>

\* channel.size(); fifo.size(); isFull() of a handle of the channel is
\* size() == SIZE, getNumMessages() is size().
BothSize ==
    /\ aborted = "no"
    /\ returned' = [op |-> "size", channel |-> QueueSize(channel),
                    fifo |-> QueueSize(fifo),
                    isFull |-> (QueueSize(channel) = Uint32(S)),
                    getNumMessages |-> QueueSize(channel)]
    /\ UNCHANGED <<S, build, value, instantiated, channel, fifo, calls>>
    /\ UNCHANGED <<chanVars, configVars, callerVars, inputVars, opc,
                   channelIndex, pendingMessages, messageIndex,
                   receivedMessages, returnElement, historyVars, completed,
                   aborted>>

FifoNext ==
    \/ BothPushBack
    \/ BothPopFront
    \/ BothSize

FifoSpec == FifoInit /\ [][FifoNext]_vars

\* C21: under calls that keep the contract, the ThreadChannel with the mask
\* and the WaitFreeFifo with the modulo have the same read index, write
\* index, counter and elements after every call, no assert of either fails,
\* and every popFront and size returns the same value from both; this holds
\* for every size, 1 included.
C21_MaskModuloEquivalent ==
    calls.misuse = 0 =>
        /\ aborted = "no"
        /\ channel.readPoint = fifo.readPoint
        /\ channel.writePoint = fifo.writePoint
        /\ channel.numElements = fifo.numElements
        /\ channel.elements = fifo.elements
        /\ returned.op \in {"popFront", "size"} =>
               returned.channel = returned.fifo
        /\ returned.op = "popFront" =>
               returned.channel = calls.popFront

\* Size 1 (mask 0): both have wrapped around, a popFront returned the second
\* element from both.
C21_Witness ==
    /\ S = 1
    /\ calls.misuse = 0
    /\ returned.op = "popFront"
    /\ returned.channel = 2
    /\ returned.fifo = 2
    /\ channel.readPoint = 0
    /\ calls.pushBack = 2

\* 2^32 - 1, the halves 65535 and 65535
AllOnes32 == <<Half - 1, Half - 1>>

\* C28: the contract broken in a build without assertions, on a channel that
\* was used within the contract so far.  popFront at numElements = 0 leaves
\* the 32-bit counter at 2^32 - 1, which size() (getNumMessages()) then
\* reports while isFull() is false.  pushBack at numElements = SIZE writes the
\* slot of the oldest element not yet popped and leaves numElements at
\* SIZE + 1.  After either call numElements is above SIZE.
C28_ReleaseBuildMisuse ==
    [][/\ (/\ build = "NDEBUG"
           /\ calls.misuse = 0
           /\ calls'.popFront = calls.popFront + 1
           /\ channel.numElements = Zero32) =>
              /\ channel'.numElements = AllOnes32
              /\ Less32(Uint32(S), channel'.numElements)
       /\ (/\ build = "NDEBUG"
           /\ calls.misuse = 0
           /\ calls'.pushBack = calls.pushBack + 1
           /\ channel.numElements = Uint32(S)) =>
              /\ channel.writePoint = channel.readPoint
              /\ channel.elements[channel.readPoint] = calls.popFront + 1
              /\ channel'.elements[channel.readPoint] = calls.pushBack + 1
              /\ \A i \in 0 .. (S - 1) :
                     channel'.elements[i] # calls.popFront + 1
              /\ channel'.numElements = Uint32(S + 1)
              /\ Less32(Uint32(S), channel'.numElements)
       /\ (/\ returned'.op = "size"
           /\ channel.numElements = AllOnes32) =>
              /\ returned'.getNumMessages = AllOnes32
              /\ returned'.isFull = FALSE]_vars

\* Without assertions a popFront on the empty channel of size 2 returned, and
\* the size() after it reported 2^32 - 1 and not full.
C28_Witness ==
    /\ build = "NDEBUG"
    /\ S = 2
    /\ calls.misuse = 1
    /\ returned.op = "size"
    /\ returned.getNumMessages = AllOnes32
    /\ returned.isFull = FALSE
    /\ channel.numElements = AllOnes32

\* Without assertions a pushBack on the full channel of size 2 returned.
PushedOnFull ==
    /\ build = "NDEBUG"
    /\ S = 2
    /\ calls.misuse = 1
    /\ calls.pushBack = 3
    /\ calls.popFront = 0
    /\ returned.op = "pushBack"
    /\ channel.numElements = Uint32(3)
    /\ channel.elements[0] = 3

\* ------------------------------------------ static_assert(isPowerOfTwo(SIZE))

\* LWMessageQueue<SIZE, ...> is instantiated with some SIZE: the constructor
\* of ThreadChannel compiles if isPowerOfTwo(SIZE), the program is ill-formed
\* otherwise.  The sizes tried have, in each 16-bit half, 0, a small number, a
\* power of two or a neighbour of one: all 32 powers of two, 0 and 2^32 - 1
\* are among them.

MaxSmallValue == 8

HalfSamples ==
    (0 .. MaxSmallValue)
        \cup {Pow2(k) : k \in 0 .. 15}
        \cup {Pow2(k) - 1 : k \in 0 .. 16}
        \cup {Pow2(k) + 1 : k \in 0 .. 14}

SizeArguments == HalfSamples \X HalfSamples

InstantiateInit ==
    /\ ProgramsAtRest
    /\ value \in SizeArguments
    /\ instantiated = "no"
    /\ S = SIZE
    /\ build = "checked"
    /\ channel = EmptyQueue(SIZE)
    /\ fifo = EmptyQueue(SIZE)
    /\ returned = [op |-> "none"]
    /\ calls = [pushBack |-> 0, popFront |-> 0, misuse |-> 0]

Instantiate ==
    /\ instantiated = "no"
    /\ instantiated' = IF isPowerOfTwo(value) THEN "yes" ELSE "ill-formed"
    /\ UNCHANGED <<value, S, build, channel, fifo, returned, calls>>
    /\ UNCHANGED <<chanVars, configVars, callerVars, threadVars, returnElement,
                   pushed, popped, completed, aborted>>

InstantiateNext == Instantiate

InstantiateSpec == InstantiateInit /\ [][InstantiateNext]_vars

\* value is 2^k for some k in 0 .. 31.
IsTwoToThe(v) ==
    \E k \in 0 .. 15 : v = <<0, Pow2(k)>> \/ v = <<Pow2(k), 0>>

\* C24: isPowerOfTwo(value) is true exactly when value is 2^k for some k in
\* 0 .. 31 (false for 0, true for 1), and the queue is instantiated exactly
\* with such a SIZE: every other SIZE is rejected by the static_assert.
C24_IsPowerOfTwo ==
    /\ isPowerOfTwo(value) <=> IsTwoToThe(value)
    /\ ~isPowerOfTwo(Zero32)
    /\ isPowerOfTwo(Uint32(1))
    /\ instantiated = "yes" => IsTwoToThe(value)
    /\ instantiated = "ill-formed" => ~IsTwoToThe(value)

\* The queue was instantiated with SIZE = 2^31.
C24_Witness ==
    /\ value = <<Pow2(15), 0>>
    /\ instantiated = "yes"

=============================================================================
